---- MODULE Spec2Model ----
(***************************************************************************)
(* Affiliate commission ledger and payout engine of copyboss-live.         *)
(*                                                                         *)
(* Tables users, commissions and affiliate_payouts (database.js), the two  *)
(* commission-recording webhook handlers (server.js) and the payout batch  *)
(* (payout-cron.js) are modelled.  Every awaited database or Stripe call   *)
(* of the batch is one step, so that invocations and the webhooks          *)
(* interleave exactly where the event loop lets them.                      *)
(*                                                                         *)
(* Money: the columns purchase_amount and commission_amount hold pounds as *)
(* JavaScript numbers.  Here a stored amount is an integer number of       *)
(* 1/RateDen pence, which represents amount_total / 100 and its product    *)
(* with 0.4 exactly (decimal arithmetic, no binary rounding error).        *)
(* Timestamps are abstracted to unset ("NULL") or set ("ts").              *)
(*                                                                         *)
(* The free-usage tracker of the generator backend (its own process) is    *)
(* modelled beside the ledger, which it does not touch.                    *)
(***************************************************************************)
EXTENDS Integers, Sequences, FiniteSets, TLC

\* ------------------------------------------------------------------ bounds
MaxEvents == 2
MaxRuns == 2
MaxDbFaults == 1
MaxFires == 8
MaxRequests == 3
MaxSignups == 3

\* ------------------------------------------------------- program constants
RateNum == 4
RateDen == 10
PencePerPound == 100
PayoutThreshold == 50
CommissionMonths == 3
NoId == 0

\* a stored amount of `pence` pence (amount_total / 100 pounds)
FromPence(pence) == pence * RateDen
\* the stored amount of `pounds` whole pounds
Pounds(pounds) == FromPence(pounds * PencePerPound)
\* purchaseAmount * 0.4
CommissionOf(purchaseAmount) == (purchaseAmount * RateNum) \div RateDen
\* Math.round(totalPending * 100): pence, halves rounded up
ToPence(amount) == (2 * amount + RateDen) \div (2 * RateDen)

\* ------------------------------------------------------------------- dates
Date(y, m, d) == [year |-> y, month |-> m, day |-> d]
NoDate == Date(0, 0, 0)
\* Date.prototype.getMonth is zero-based
getMonth(date) == date.month - 1
getFullYear(date) == date.year
IsLeap(y) == (y % 4 = 0 /\ y % 100 # 0) \/ y % 400 = 0
DaysInMonth(y, m) ==
  IF m = 2 THEN (IF IsLeap(y) THEN 29 ELSE 28)
  ELSE IF m \in {4, 6, 9, 11} THEN 30 ELSE 31
\* the calendar date `n` days after the first of month m (JS date overflow)
RECURSIVE Normalize(_, _, _)
Normalize(y, m, d) ==
  IF m > 12 THEN Normalize(y + 1, m - 12, d)
  ELSE IF d > DaysInMonth(y, m) THEN Normalize(y, m + 1, d - DaysInMonth(y, m))
  ELSE Date(y, m, d)
\* expiry.setMonth(expiry.getMonth() + 1)
SetMonthPlusOne(date) == Normalize(date.year, date.month + 1, date.day)

\* --------------------------------------------------------------- the state
VARIABLES
  users,        \* table users: id -> row
  commissions,  \* table commissions: sequence of rows, id = position
  payouts,      \* table affiliate_payouts: sequence of rows, id = position
  transfers,    \* every stripe.transfers.create call made, in order
  batch,        \* per running processMonthlyPayouts: its locals and position
  runs,         \* number of batches started
  faults,       \* number of database calls that failed
  today,        \* the calendar date
  cronFired,    \* the cron job has fired today
  delivered,    \* number of webhook events handled
  last,         \* the webhook event handled last, and what it recorded
  hostLag,      \* days the host's local date is behind the Europe/London date
  fires,        \* every fire of the cron job: its date, and whether it invoked
  freeUsageTracker, \* generator backend: the keys of the Map
  requests      \* generator backend: the POST /generate requests, by arrival

vars == <<users, commissions, payouts, transfers, batch, runs, faults, today,
          cronFired, delivered, last, hostLag, fires, freeUsageTracker,
          requests>>

\* the invocations of processMonthlyPayouts that can be in flight together
\* (slots; an invocation takes the first free one)
Batches == {1, 2}

UserRow(id, email, ref, acct, created) ==
  [id |-> id, email |-> email, referrer_id |-> ref, stripe_account_id |-> acct, plan |-> "free",
   subscription_expires |-> NoDate, report_credits |-> 0, created_at |-> created]

\* a populated users table: 1 is the seeded affiliate, 2 was referred by 1,
\* 3 by 2 and 4 by 3; 1 and 3 have a Stripe account, 2 and 4 have none
SeedUsers ==
  (1 :> UserRow(1, "testaffiliate@example.com", NoId, "acct_1", Date(2023, 12, 1))) @@
  (2 :> UserRow(2, "user2@example.com", 1, "NULL", Date(2023, 12, 20))) @@
  (3 :> UserRow(3, "user3@example.com", 2, "acct_3", Date(2024, 1, 15))) @@
  (4 :> UserRow(4, "user4@example.com", 3, "NULL", Date(2024, 1, 31)))

\* WHERE id = ? matches a row
UserExists(id) == id \in DOMAIN users

\* ------------------------------------------------------------ ledger reads
RECURSIVE SumAmounts(_, _)
SumAmounts(rows, ids) ==
  IF ids = {} THEN 0
  ELSE LET i == CHOOSE x \in ids : TRUE
       IN rows[i].commission_amount + SumAmounts(rows, ids \ {i})

\* a WHERE clause that forgets the status
PendingIds_AnyStatus(userId) ==
  {i \in DOMAIN commissions : commissions[i].referrer_id = userId}

\* WHERE referrer_id = ? AND status = "pending"
PendingIds(userId) ==
  {i \in DOMAIN commissions :
     commissions[i].referrer_id = userId /\ commissions[i].status = "pending"}

\* SELECT SUM(commission_amount) ...; row.total || 0
getTotalPendingCommissions(userId) == SumAmounts(commissions, PendingIds(userId))

\* a scan with HAVING total_pending > 50
EligibleSet_Strict ==
  {u \in DOMAIN users :
     /\ users[u].stripe_account_id # "NULL"
     /\ SumAmounts(commissions, PendingIds(u)) > Pounds(PayoutThreshold)}

\* the rows of getEligibleUsers, before ORDER BY
EligibleSet ==
  {u \in DOMAIN users :
     /\ users[u].stripe_account_id # "NULL"
     /\ SumAmounts(commissions, PendingIds(u)) >= Pounds(PayoutThreshold)}

\* ORDER BY total_pending DESC; rows with equal totals come in either order
IsDescending(seq) ==
  \A i, j \in DOMAIN seq :
    i < j => SumAmounts(commissions, PendingIds(seq[i]))
               >= SumAmounts(commissions, PendingIds(seq[j]))

getEligibleUsers ==
  {seq \in [1..Cardinality(EligibleSet) -> EligibleSet] :
     /\ \A u \in EligibleSet : \E i \in DOMAIN seq : seq[i] = u
     /\ IsDescending(seq)}

\* ----------------------------------------------------------- ledger writes
\* an insert with paid_at DEFAULT CURRENT_TIMESTAMP
createCommission_PaidAtDefault(referrerId, referredUserId, purchaseAmount, commissionAmount, paymentIntentId) ==
  Append(commissions,
         [id |-> Len(commissions) + 1, referrer_id |-> referrerId,
          referred_user_id |-> referredUserId, purchase_amount |-> purchaseAmount,
          commission_amount |-> commissionAmount, status |-> "pending",
          stripe_payment_intent_id |-> paymentIntentId, paid_at |-> "ts"])

\* INSERT INTO commissions (...): status DEFAULT 'pending', paid_at NULL
createCommission(referrerId, referredUserId, purchaseAmount, commissionAmount, paymentIntentId) ==
  Append(commissions,
         [id |-> Len(commissions) + 1, referrer_id |-> referrerId,
          referred_user_id |-> referredUserId, purchase_amount |-> purchaseAmount,
          commission_amount |-> commissionAmount, status |-> "pending",
          stripe_payment_intent_id |-> paymentIntentId, paid_at |-> "NULL"])

\* a bulk update that forgets paid_at
updateCommissionsToPaid_StatusOnly(userId) ==
  [i \in DOMAIN commissions |->
     IF commissions[i].referrer_id = userId /\ commissions[i].status = "pending"
     THEN [commissions[i] EXCEPT !.status = "paid"]
     ELSE commissions[i]]

\* UPDATE commissions SET status='paid', paid_at=CURRENT_TIMESTAMP
\* WHERE referrer_id = ? AND status = 'pending'
updateCommissionsToPaid(userId) ==
  [i \in DOMAIN commissions |->
     IF commissions[i].referrer_id = userId /\ commissions[i].status = "pending"
     THEN [commissions[i] EXCEPT !.status = "paid", !.paid_at = "ts"]
     ELSE commissions[i]]

\* INSERT INTO affiliate_payouts (user_id, amount): status DEFAULT 'pending'
createPayout(userId, amount) ==
  Append(payouts,
         [id |-> Len(payouts) + 1, user_id |-> userId, amount |-> amount,
          stripe_payout_id |-> NoId, status |-> "pending", paid_at |-> "NULL"])

\* UPDATE affiliate_payouts SET status=?, stripe_payout_id=?, paid_at=? WHERE id=?
updatePayoutStatus(payoutId, status, stripePayoutId) ==
  [i \in DOMAIN payouts |->
     IF payouts[i].id = payoutId
     THEN [payouts[i] EXCEPT !.status = status,
                             !.stripe_payout_id = stripePayoutId,
                             !.paid_at = IF status = "paid" THEN "ts" ELSE "NULL"]
     ELSE payouts[i]]

\* UPDATE users SET plan = ?, subscription_expires = ? WHERE id = ?
updateUserPlan(userId, plan, expiryDate) ==
  IF UserExists(userId)
  THEN [users EXCEPT ![userId].plan = plan,
                     ![userId].subscription_expires = expiryDate]
  ELSE users

\* UPDATE users SET report_credits = report_credits + ? WHERE id = ?
addReportCredits(userId, credits) ==
  IF UserExists(userId)
  THEN [users EXCEPT ![userId].report_credits = @ + credits]
  ELSE users

\* an update without AND report_credits > 0
useReportCredit_NoGuard(userId) ==
  IF UserExists(userId)
  THEN [table |-> [users EXCEPT ![userId].report_credits = @ - 1],
        result |-> TRUE]
  ELSE [table |-> users, result |-> FALSE]

\* UPDATE users SET report_credits = report_credits - 1
\*   WHERE id = ? AND report_credits > 0; resolve(this.changes > 0)
useReportCredit(userId) ==
  IF UserExists(userId) /\ users[userId].report_credits > 0
  THEN [table |-> [users EXCEPT ![userId].report_credits = @ - 1],
        result |-> TRUE]
  ELSE [table |-> users, result |-> FALSE]

\* ---------------------------------------------------------- webhook events
\* event.data.object of the two handled event kinds: userId is metadata.userId
\* and customer the Stripe customer, NoId when absent; amount is amount_total
\* or amount_paid, in pence; created is the invoice date
Event(type, userId, customer, plan, credits, amount, pi, created) ==
  [type |-> type, userId |-> userId, customer |-> customer, plan |-> plan,
   credits |-> credits, amount |-> amount, payment_intent |-> pi,
   created |-> created]
NoEvent == Event("none", NoId, NoId, "NULL", 0, 0, "NULL", NoDate)

\* session.metadata?.userId || session.customer
EventUserId(obj) == IF obj.userId # NoId THEN obj.userId ELSE obj.customer

\* a recorder that replaces the row of the same user and payment reference
processAffiliateCommission_Upsert(tbl, session) ==
  LET userId == EventUserId(session)
  IN IF userId = NoId THEN commissions
     ELSE IF ~(userId \in DOMAIN tbl) \/ tbl[userId].referrer_id = NoId
     THEN commissions
     ELSE LET same == {i \in DOMAIN commissions :
                         /\ commissions[i].referred_user_id = userId
                         /\ commissions[i].stripe_payment_intent_id = session.payment_intent}
              purchaseAmount == FromPence(session.amount)
          IN IF same = {}
             THEN createCommission(tbl[userId].referrer_id, userId, purchaseAmount,
                                   CommissionOf(purchaseAmount), session.payment_intent)
             ELSE [i \in DOMAIN commissions |->
                     IF i \in same
                     THEN [commissions[i] EXCEPT
                             !.purchase_amount = purchaseAmount,
                             !.commission_amount = CommissionOf(purchaseAmount),
                             !.status = "pending", !.paid_at = "NULL"]
                     ELSE commissions[i]]

\* processAffiliateCommission(session): the commissions table after the call
processAffiliateCommission(tbl, session) ==
  LET userId == EventUserId(session)
  IN IF userId = NoId THEN commissions
     ELSE IF ~(userId \in DOMAIN tbl) \/ tbl[userId].referrer_id = NoId
     THEN commissions
     ELSE LET purchaseAmount == FromPence(session.amount)
              commissionAmount == CommissionOf(purchaseAmount)
          IN createCommission(tbl[userId].referrer_id, userId, purchaseAmount,
                              commissionAmount, session.payment_intent)

\* a month count by elapsed time: a month counts once its day is reached
monthsDiff_Elapsed(subscriptionStart, invoiceDate) ==
  (getFullYear(invoiceDate) - getFullYear(subscriptionStart)) * 12
    + (getMonth(invoiceDate) - getMonth(subscriptionStart))
    - (IF invoiceDate.day < subscriptionStart.day THEN 1 ELSE 0)

\* (invoiceDate.getFullYear() - subscriptionStart.getFullYear()) * 12
\*   + (invoiceDate.getMonth() - subscriptionStart.getMonth())
monthsDiff(subscriptionStart, invoiceDate) ==
  (getFullYear(invoiceDate) - getFullYear(subscriptionStart)) * 12
    + (getMonth(invoiceDate) - getMonth(subscriptionStart))

\* a recorder that checks the user but not its referrer
processSubscriptionCommission_NoReferrerCheck(tbl, invoice) ==
  LET userId == EventUserId(invoice)
  IN IF userId = NoId THEN commissions
     ELSE IF ~(userId \in DOMAIN tbl) THEN commissions
     ELSE IF monthsDiff(tbl[userId].created_at, invoice.created) >= CommissionMonths
     THEN commissions
     ELSE createCommission(tbl[userId].referrer_id, userId, FromPence(invoice.amount),
                           CommissionOf(FromPence(invoice.amount)),
                           invoice.payment_intent)

\* processSubscriptionCommission(invoice): the commissions table after the call
processSubscriptionCommission(tbl, invoice) ==
  LET userId == EventUserId(invoice)
  IN IF userId = NoId THEN commissions
     ELSE IF ~(userId \in DOMAIN tbl) \/ tbl[userId].referrer_id = NoId
     THEN commissions
     ELSE IF monthsDiff(tbl[userId].created_at, invoice.created) >= CommissionMonths
     THEN commissions
     ELSE LET purchaseAmount == FromPence(invoice.amount)
              commissionAmount == CommissionOf(purchaseAmount)
          IN createCommission(tbl[userId].referrer_id, userId, purchaseAmount,
                              commissionAmount, invoice.payment_intent)

\* what the handler of `event` recorded: the id of the new commission, or NoId
\* and the status of the response (res.json({ received: true }))
Handled(event, after) ==
  [event |-> event,
   commission |-> IF Len(after) > Len(commissions) THEN Len(after) ELSE NoId,
   response |-> 200]

\* POST /stripe-webhook, case 'checkout.session.completed'
CheckoutSessionCompleted(session) ==
  /\ session.type = "checkout.session.completed"
  /\ delivered < MaxEvents
  /\ delivered' = delivered + 1
  /\ LET userId == session.userId
         tbl == IF userId = NoId THEN users
                ELSE IF session.plan = "pro"
                THEN updateUserPlan(userId, "pro", SetMonthPlusOne(today))
                ELSE IF session.credits > 0
                THEN addReportCredits(userId, session.credits)
                ELSE users
         after == processAffiliateCommission(tbl, session)
     IN /\ users' = tbl
        /\ commissions' = after
        /\ last' = Handled(session, after)
  /\ UNCHANGED <<payouts, transfers, batch, runs, faults, today, cronFired,
                 hostLag, fires, freeUsageTracker, requests>>

\* POST /stripe-webhook, case 'invoice.payment_succeeded'
InvoicePaymentSucceeded(invoice) ==
  /\ invoice.type = "invoice.payment_succeeded"
  /\ delivered < MaxEvents
  /\ delivered' = delivered + 1
  /\ LET userId == invoice.userId
         tbl == IF userId = NoId THEN users
                ELSE updateUserPlan(userId, "pro", SetMonthPlusOne(today))
         after == processSubscriptionCommission(tbl, invoice)
     IN /\ users' = tbl
        /\ commissions' = after
        /\ last' = Handled(invoice, after)
  /\ UNCHANGED <<payouts, transfers, batch, runs, faults, today, cronFired,
                 hostLag, fires, freeUsageTracker, requests>>

\* a recorder without its try/catch: the rejection reaches the catch of the
\* handler, which answers 500
CheckoutCommissionFails_Propagates(session) ==
  /\ session.type = "checkout.session.completed"
  /\ delivered < MaxEvents
  /\ faults < MaxDbFaults
  /\ delivered' = delivered + 1
  /\ faults' = faults + 1
  /\ LET userId == session.userId
         tbl == IF userId = NoId THEN users
                ELSE IF session.plan = "pro"
                THEN updateUserPlan(userId, "pro", SetMonthPlusOne(today))
                ELSE IF session.credits > 0
                THEN addReportCredits(userId, session.credits)
                ELSE users
     IN /\ processAffiliateCommission(tbl, session) # commissions
        /\ users' = tbl
        /\ last' = [event |-> session, commission |-> NoId, response |-> 500]
  /\ UNCHANGED <<commissions, payouts, transfers, batch, runs, today, cronFired,
                 hostLag, fires, freeUsageTracker, requests>>

\* POST /stripe-webhook, case 'checkout.session.completed', where
\* db.createCommission rejects: processAffiliateCommission catches and logs,
\* and the handler goes on to res.json({ received: true })
CheckoutCommissionFails(session) ==
  /\ session.type = "checkout.session.completed"
  /\ delivered < MaxEvents
  /\ faults < MaxDbFaults
  /\ delivered' = delivered + 1
  /\ faults' = faults + 1
  /\ LET userId == session.userId
         tbl == IF userId = NoId THEN users
                ELSE IF session.plan = "pro"
                THEN updateUserPlan(userId, "pro", SetMonthPlusOne(today))
                ELSE IF session.credits > 0
                THEN addReportCredits(userId, session.credits)
                ELSE users
     IN /\ processAffiliateCommission(tbl, session) # commissions
        /\ users' = tbl
        /\ last' = [event |-> session, commission |-> NoId, response |-> 200]
  /\ UNCHANGED <<commissions, payouts, transfers, batch, runs, today, cronFired,
                 hostLag, fires, freeUsageTracker, requests>>

\* POST /stripe-webhook, case 'invoice.payment_succeeded', where
\* db.createCommission rejects: processSubscriptionCommission catches and logs
InvoiceCommissionFails(invoice) ==
  /\ invoice.type = "invoice.payment_succeeded"
  /\ delivered < MaxEvents
  /\ faults < MaxDbFaults
  /\ delivered' = delivered + 1
  /\ faults' = faults + 1
  /\ LET userId == invoice.userId
         tbl == IF userId = NoId THEN users
                ELSE updateUserPlan(userId, "pro", SetMonthPlusOne(today))
     IN /\ processSubscriptionCommission(tbl, invoice) # commissions
        /\ users' = tbl
        /\ last' = [event |-> invoice, commission |-> NoId, response |-> 200]
  /\ UNCHANGED <<commissions, payouts, transfers, batch, runs, today, cronFired,
                 hostLag, fires, freeUsageTracker, requests>>

\* POST /create-checkout-session: the session Stripe creates and, once paid,
\* sends back in checkout.session.completed.  Its metadata is { userId, plan }:
\* there is no credits key, so the webhook reads credits as 0.  amount_total
\* is the price behind the plan's price id (STRIPE_PRICE_*).
createCheckoutSession(plan, userId) ==
  Event("checkout.session.completed", userId, NoId, plan, 0,
        IF plan = "pro" THEN 1999 ELSE IF plan = "2reports" THEN 999 ELSE 4999,
        "pi_4", NoDate)

\* POST /affiliate/process-commission: the ids, the amount (in pounds) and
\* the payment reference are those of the request body; a falsy referrerId,
\* referredUserId or purchaseAmount is answered 400, anything else is inserted
ProcessCommission(referrerId, referredUserId, purchaseAmount, paymentIntentId) ==
  /\ delivered < MaxEvents
  /\ referrerId # NoId /\ referredUserId # NoId /\ purchaseAmount # 0
  /\ delivered' = delivered + 1
  /\ commissions' = createCommission(referrerId, referredUserId,
                                     Pounds(purchaseAmount),
                                     CommissionOf(Pounds(purchaseAmount)),
                                     paymentIntentId)
  /\ UNCHANGED <<users, payouts, transfers, batch, runs, faults, today,
                 cronFired, last, hostLag, fires, freeUsageTracker, requests>>

\* a caller of db.useReportCredit(userId); the statement is one UPDATE, so it
\* interleaves with the webhooks as a whole
UseReportCredit(userId) ==
  /\ users' = useReportCredit(userId).table
  /\ UNCHANGED <<commissions, payouts, transfers, batch, runs, faults, today,
                 cronFired, delivered, last, hostLag, fires, freeUsageTracker,
                 requests>>

\* ------------------------------------------------------------- the signups
\* SELECT * FROM users WHERE email = ?
getUserByEmail(email) == {u \in DOMAIN users : users[u].email = email}

\* INSERT INTO users (email, username, password, referrer_id); the id is
\* this.lastID of an AUTOINCREMENT key in a table no statement deletes from
createUser(email, referrerId) ==
  LET lastID == Cardinality(DOMAIN users) + 1
  IN users @@ (lastID :> UserRow(lastID, email, referrerId, "NULL", today))

\* a signup that does not look the referrer up
Signup_NoReferrerCheck(email, referrerId) ==
  /\ Cardinality(DOMAIN users) < 1 + MaxSignups
  /\ getUserByEmail(email) = {}
  /\ users' = createUser(email, referrerId)
  /\ UNCHANGED <<commissions, payouts, transfers, batch, runs, faults, today,
                 cronFired, delivered, last, hostLag, fires, freeUsageTracker,
                 requests>>

\* POST /api/signup (the first handler registered on the path; it always
\* answers, so the second one never runs).  A falsy referrerId (undefined,
\* null, 0, "") skips the lookup and is read back as "no referrer" by every
\* reader (!user.referrer_id); NoId stands for all of them.
Signup(email, referrerId) ==
  /\ Cardinality(DOMAIN users) < 1 + MaxSignups
  /\ getUserByEmail(email) = {}
  /\ referrerId # NoId => UserExists(referrerId)
  /\ users' = createUser(email, referrerId)
  /\ UNCHANGED <<commissions, payouts, transfers, batch, runs, faults, today,
                 cronFired, delivered, last, hostLag, fires, freeUsageTracker,
                 requests>>

\* POST /affiliate/process-referral
ProcessReferral(email, referrerId) ==
  /\ Cardinality(DOMAIN users) < 1 + MaxSignups
  /\ referrerId # NoId
  /\ UserExists(referrerId)
  /\ getUserByEmail(email) = {}
  /\ users' = createUser(email, referrerId)
  /\ UNCHANGED <<commissions, payouts, transfers, batch, runs, faults, today,
                 cronFired, delivered, last, hostLag, fires, freeUsageTracker,
                 requests>>

\* -------------------------------------------------------- the payout batch
\* The locals of one processMonthlyPayouts invocation and of the
\* processUserPayout call it is in: pc is the awaited call, payout the id of
\* the transfer Stripe returned.  readSet (the rows the re-check summed), xfer
\* (the outcome of the transfer call), created (the payout rows the call
\* inserted), log (the finished calls of the run) and escaped (an exception left
\* processMonthlyPayouts) record history and are read by no step.
IdleBatch ==
  [pc |-> "idle", started |-> FALSE, eligibleUsers |-> <<>>, idx |-> 0,
   totalPending |-> 0, catchTotal |-> 0, payout |-> NoId, payoutId |-> NoId,
   readSet |-> {}, xfer |-> "none", created |-> {}, log |-> <<>>,
   escaped |-> FALSE]

\* the user (snapshot row of the eligibility scan) being processed
UserOf(r) == r.eligibleUsers[r.idx]

\* processUserPayout finished: its record, and fresh locals
Logged(r, outcome, settled) ==
  [r EXCEPT !.log = Append(@, [user |-> UserOf(r), outcome |-> outcome,
                               xfer |-> r.xfer, payout |-> r.payout,
                               totalPending |-> r.totalPending,
                               catchTotal |-> r.catchTotal,
                               readSet |-> r.readSet, created |-> r.created,
                               settled |-> settled]),
            !.totalPending = 0, !.catchTotal = 0, !.payout = NoId,
            !.payoutId = NoId, !.readSet = {}, !.xfer = "none", !.created = {}]

\* for (const user of eligibleUsers): the next user, or the end of the batch
LoopAdvance(r) ==
  IF r.idx < Len(r.eligibleUsers)
  THEN [r EXCEPT !.idx = @ + 1, !.pc = "recheck"]
  ELSE [r EXCEPT !.pc = "idle"]

\* await processUserPayout(user) returned
AfterReturn(r, outcome, settled) == LoopAdvance(Logged(r, outcome, settled))

\* a loop without its try/catch: the exception ends the batch
AfterThrow_Abort(r) == [Logged(r, "thrown", {}) EXCEPT !.pc = "idle", !.escaped = TRUE]

\* await processUserPayout(user) threw: catch (error) { log } and continue
AfterThrow(r) == LoopAdvance(Logged(r, "thrown", {}))

\* processMonthlyPayouts() up to its first per-user call: the eligibility scan.
\* An invocation takes the first slot that is free (the slots are anonymous).
StartBatch(b, eligibleUsers) ==
  /\ \A c \in Batches : c < b => batch[c].pc # "idle"
  /\ batch' = [batch EXCEPT ![b] =
       IF Len(eligibleUsers) = 0
       THEN [IdleBatch EXCEPT !.started = TRUE]
       ELSE [IdleBatch EXCEPT !.started = TRUE, !.pc = "recheck",
                              !.eligibleUsers = eligibleUsers, !.idx = 1]]
  /\ runs' = runs + 1

\* new Date(today); setDate(getDate() + 1)
Tomorrow(date) == Normalize(date.year, date.month, date.day + 1)

\* new Date() at the fire: the host's local date, which is the schedule's
\* (timezone: "Europe/London") date or, on a host far enough west, the day before
Yesterday(date) ==
  IF date.day > 1 THEN Date(date.year, date.month, date.day - 1)
  ELSE IF date.month > 1
  THEN Date(date.year, date.month - 1, DaysInMonth(date.year, date.month - 1))
  ELSE Date(date.year - 1, 12, 31)
HostDate == IF hostLag = 0 THEN today ELSE Yesterday(today)

\* cron.schedule('0 2 28-31 * *', ...): one fire a day on days 28 to 31
monthlyPayoutJob(b) ==
  /\ batch[b].pc = "idle"
  /\ runs < MaxRuns
  /\ ~cronFired
  /\ today.day \in 28..31
  /\ cronFired' = TRUE
  /\ IF Tomorrow(HostDate).day # 1
     THEN /\ fires' = Append(fires, [date |-> today, invoked |-> FALSE])
          /\ UNCHANGED <<batch, runs>>
     ELSE /\ fires' = Append(fires, [date |-> today, invoked |-> TRUE])
          /\ \E eligibleUsers \in getEligibleUsers :
               StartBatch(b, eligibleUsers)
  /\ UNCHANGED <<users, commissions, payouts, transfers, faults, today,
                 delivered, last, hostLag, freeUsageTracker, requests>>

\* a trigger behind a run-lock: rejected while a batch is in flight
triggerManualPayout_Locked(b) ==
  /\ \A c \in Batches : batch[c].pc = "idle"
  /\ batch[b].pc = "idle"
  /\ runs < MaxRuns
  /\ \E eligibleUsers \in getEligibleUsers :
       StartBatch(b, eligibleUsers)
  /\ UNCHANGED <<users, commissions, payouts, transfers, faults, today,
                 cronFired, delivered, last, hostLag, fires,
                 freeUsageTracker, requests>>

\* triggerManualPayout()
triggerManualPayout(b) ==
  /\ batch[b].pc = "idle"
  /\ runs < MaxRuns
  /\ \E eligibleUsers \in getEligibleUsers :
       StartBatch(b, eligibleUsers)
  /\ UNCHANGED <<users, commissions, payouts, transfers, faults, today,
                 cronFired, delivered, last, hostLag, fires,
                 freeUsageTracker, requests>>

\* a processUserPayout that trusts the scan and does not test the sum it reads
Recheck_NoThreshold(b) ==
  LET r == batch[b]
  IN /\ r.pc = "recheck"
     /\ batch' = [batch EXCEPT ![b] =
          [r EXCEPT !.totalPending = getTotalPendingCommissions(UserOf(r)),
                    !.readSet = PendingIds(UserOf(r)), !.pc = "transfer"]]
     /\ UNCHANGED <<users, commissions, payouts, transfers, runs, faults,
                    today, cronFired, delivered, last, hostLag, fires,
                    freeUsageTracker, requests>>

\* processUserPayout: const totalPending = await db.getTotalPendingCommissions;
\* if (totalPending < 50) return
Recheck(b) ==
  LET r == batch[b]
      totalPending == getTotalPendingCommissions(UserOf(r))
      r1 == [r EXCEPT !.totalPending = totalPending,
                      !.readSet = PendingIds(UserOf(r))]
  IN /\ r.pc = "recheck"
     /\ batch' = [batch EXCEPT ![b] =
          IF totalPending < Pounds(PayoutThreshold)
          THEN AfterReturn(r1, "skipped", {})
          ELSE [r1 EXCEPT !.pc = "transfer"]]
     /\ UNCHANGED <<users, commissions, payouts, transfers, runs, faults,
                    today, cronFired, delivered, last, hostLag, fires,
                    freeUsageTracker, requests>>

\* a call whose amount is cut to whole pence (Math.floor)
TransferCall_Floor(b, ok) ==
  LET r == batch[b]
  IN [id |-> Len(transfers) + 1,
      amount |-> r.totalPending \div RateDen,
      currency |-> "gbp",
      destination |-> users[UserOf(r)].stripe_account_id,
      user_id |-> UserOf(r),
      affiliate_payout |-> "true",
      ok |-> ok, covers |-> r.readSet, by |-> b]

\* the arguments of stripe.transfers.create, and what the call covered
TransferCall(b, ok) ==
  LET r == batch[b]
  IN [id |-> Len(transfers) + 1,
      amount |-> ToPence(r.totalPending),
      currency |-> "gbp",
      destination |-> users[UserOf(r)].stripe_account_id,
      user_id |-> UserOf(r),
      affiliate_payout |-> "true",
      ok |-> ok, covers |-> r.readSet, by |-> b]

\* const payout = await stripe.transfers.create({...}) resolved
TransferSucceeds(b) ==
  LET r == batch[b]
  IN /\ r.pc = "transfer"
     /\ transfers' = Append(transfers, TransferCall(b, TRUE))
     /\ batch' = [batch EXCEPT ![b] =
          [r EXCEPT !.payout = Len(transfers) + 1, !.xfer = "ok",
                    !.pc = "createPayout"]]
     /\ UNCHANGED <<users, commissions, payouts, runs, faults, today,
                    cronFired, delivered, last, hostLag, fires,
                    freeUsageTracker, requests>>

\* a rejected transfer that is called again
TransferFails_Retry(b) ==
  LET r == batch[b]
  IN /\ r.pc = "transfer"
     /\ transfers' = Append(transfers, TransferCall(b, FALSE))
     /\ batch' = [batch EXCEPT ![b] = [r EXCEPT !.xfer = "fail"]]
     /\ UNCHANGED <<users, commissions, payouts, runs, faults, today,
                    cronFired, delivered, last, hostLag, fires,
                    freeUsageTracker, requests>>

\* stripe.transfers.create rejected: control enters catch (error)
TransferFails(b) ==
  LET r == batch[b]
  IN /\ r.pc = "transfer"
     /\ transfers' = Append(transfers, TransferCall(b, FALSE))
     /\ batch' = [batch EXCEPT ![b] = [r EXCEPT !.xfer = "fail", !.pc = "catchRead"]]
     /\ UNCHANGED <<users, commissions, payouts, runs, faults, today,
                    cronFired, delivered, last, hostLag, fires,
                    freeUsageTracker, requests>>

\* const payoutId = await db.createPayout(user.id, totalPending)
CreatePayoutRecord(b) ==
  LET r == batch[b]
  IN /\ r.pc = "createPayout"
     /\ payouts' = createPayout(UserOf(r), r.totalPending)
     /\ batch' = [batch EXCEPT ![b] =
          [r EXCEPT !.payoutId = Len(payouts) + 1,
                    !.created = @ \cup {Len(payouts) + 1},
                    !.pc = "updateStatus"]]
     /\ UNCHANGED <<users, commissions, transfers, runs, faults, today,
                    cronFired, delivered, last, hostLag, fires,
                    freeUsageTracker, requests>>

\* a payout that returns once the payout row is paid
MarkPayoutPaid_Returns(b) ==
  LET r == batch[b]
  IN /\ r.pc = "updateStatus"
     /\ payouts' = updatePayoutStatus(r.payoutId, "paid", r.payout)
     /\ batch' = [batch EXCEPT ![b] = AfterReturn(r, "returned", {})]
     /\ UNCHANGED <<users, commissions, transfers, runs, faults, today,
                    cronFired, delivered, last, hostLag, fires,
                    freeUsageTracker, requests>>

\* await db.updatePayoutStatus(payoutId, 'paid', payout.id)
MarkPayoutPaid(b) ==
  LET r == batch[b]
  IN /\ r.pc = "updateStatus"
     /\ payouts' = updatePayoutStatus(r.payoutId, "paid", r.payout)
     /\ batch' = [batch EXCEPT ![b] = [r EXCEPT !.pc = "markPaid"]]
     /\ UNCHANGED <<users, commissions, transfers, runs, faults, today,
                    cronFired, delivered, last, hostLag, fires,
                    freeUsageTracker, requests>>

\* a settlement reconciled to the payout: only the rows the call summed
MarkCommissionsPaid_ReadSetOnly(b) ==
  LET r == batch[b]
  IN /\ r.pc = "markPaid"
     /\ commissions' = [i \in DOMAIN commissions |->
          IF i \in r.readSet /\ commissions[i].status = "pending"
          THEN [commissions[i] EXCEPT !.status = "paid", !.paid_at = "ts"]
          ELSE commissions[i]]
     /\ batch' = [batch EXCEPT ![b] =
          AfterReturn(r, "returned", r.readSet \cap PendingIds(UserOf(r)))]
     /\ UNCHANGED <<users, payouts, transfers, runs, faults, today,
                    cronFired, delivered, last, hostLag, fires,
                    freeUsageTracker, requests>>

\* await updateCommissionsToPaid(user.id); the call returns
MarkCommissionsPaid(b) ==
  LET r == batch[b]
  IN /\ r.pc = "markPaid"
     /\ commissions' = updateCommissionsToPaid(UserOf(r))
     /\ batch' = [batch EXCEPT ![b] =
          AfterReturn(r, "returned", PendingIds(UserOf(r)))]
     /\ UNCHANGED <<users, payouts, transfers, runs, faults, today,
                    cronFired, delivered, last, hostLag, fires,
                    freeUsageTracker, requests>>

\* catch: const totalPending = await db.getTotalPendingCommissions(user.id)
CatchRead(b) ==
  LET r == batch[b]
  IN /\ r.pc = "catchRead"
     /\ batch' = [batch EXCEPT ![b] =
          [r EXCEPT !.catchTotal = getTotalPendingCommissions(UserOf(r)),
                    !.pc = "catchCreate"]]
     /\ UNCHANGED <<users, commissions, payouts, transfers, runs, faults,
                    today, cronFired, delivered, last, hostLag, fires,
                    freeUsageTracker, requests>>

\* catch: const payoutId = await db.createPayout(user.id, totalPending)
CatchCreatePayout(b) ==
  LET r == batch[b]
  IN /\ r.pc = "catchCreate"
     /\ payouts' = createPayout(UserOf(r), r.catchTotal)
     /\ batch' = [batch EXCEPT ![b] =
          [r EXCEPT !.payoutId = Len(payouts) + 1,
                    !.created = @ \cup {Len(payouts) + 1},
                    !.pc = "catchUpdate"]]
     /\ UNCHANGED <<users, commissions, transfers, runs, faults, today,
                    cronFired, delivered, last, hostLag, fires,
                    freeUsageTracker, requests>>

\* a catch block that leaves the row it inserted as it is
CatchMarkFailed_NoUpdate(b) ==
  LET r == batch[b]
  IN /\ r.pc = "catchUpdate"
     /\ batch' = [batch EXCEPT ![b] = AfterThrow(r)]
     /\ UNCHANGED <<users, commissions, payouts, transfers, runs, faults,
                    today, cronFired, delivered, last, hostLag, fires,
                    freeUsageTracker, requests>>

\* catch: await db.updatePayoutStatus(payoutId, 'failed'); throw error
CatchMarkFailed(b) ==
  LET r == batch[b]
  IN /\ r.pc = "catchUpdate"
     /\ payouts' = updatePayoutStatus(r.payoutId, "failed", NoId)
     /\ batch' = [batch EXCEPT ![b] = AfterThrow(r)]
     /\ UNCHANGED <<users, commissions, transfers, runs, faults, today,
                    cronFired, delivered, last, hostLag, fires,
                    freeUsageTracker, requests>>

\* midnight (Europe/London): the next calendar day begins.  On days 28 to 31
\* the 02:00 fire of the day has happened, and no batch runs past midnight.
NextDay ==
  /\ today.day \in 28..31 => cronFired
  /\ Len(fires) < MaxFires
  /\ \A b \in Batches : batch[b].pc = "idle"
  /\ today' = Tomorrow(today)
  /\ cronFired' = FALSE
  /\ UNCHANGED <<users, commissions, payouts, transfers, batch, runs, faults,
                 delivered, last, hostLag, fires, freeUsageTracker, requests>>

\* a database call of processUserPayout rejects: in the try block control
\* enters catch, in the catch block the rejection leaves processUserPayout
DbCallFails(b) ==
  LET r == batch[b]
  IN /\ r.pc \in {"recheck", "createPayout", "updateStatus", "markPaid",
                  "catchRead", "catchCreate", "catchUpdate"}
     /\ faults < MaxDbFaults
     /\ faults' = faults + 1
     /\ batch' = [batch EXCEPT ![b] =
          IF r.pc \in {"catchRead", "catchCreate", "catchUpdate"}
          THEN AfterThrow(r)
          ELSE [r EXCEPT !.pc = "catchRead"]]
     /\ UNCHANGED <<users, commissions, payouts, transfers, runs, today,
                    cronFired, delivered, last, hostLag, fires,
                    freeUsageTracker, requests>>

\* ---------------------------------------------------- the generator backend
\* freeUsageTracker.has(userId)
hasUsedFreeGeneration(userId) == userId \in freeUsageTracker

\* freeUsageTracker.set(userId, true)
markFreeGenerationUsed(userId) == freeUsageTracker \cup {userId}

\* the ledger is not touched by the generator backend
LedgerUnchanged ==
  UNCHANGED <<users, commissions, payouts, transfers, batch, runs, faults,
              today, cronFired, delivered, last, hostLag, fires>>

\* POST /generate up to its first await: userId is req.ip, isPro the body's
\* flag and complete whether the six required fields are there.  The handler
\* answers 400 or 403 at once, or calls OpenAI and waits.
GenerateArrives(userId, isPro, complete) ==
  /\ Len(requests) < MaxRequests
  /\ requests' = Append(requests,
       [userId |-> userId, isPro |-> isPro,
        status |-> IF ~complete THEN 400
                   ELSE IF ~isPro /\ hasUsedFreeGeneration(userId) THEN 403
                   ELSE 0,
        script |-> "none"])
  /\ UNCHANGED freeUsageTracker
  /\ LedgerUnchanged

\* the request q waits for openai.chat.completions.create
Awaiting(q) == q \in DOMAIN requests /\ requests[q].status = 0

\* after the await: if (!isPro) markFreeGenerationUsed(userId); res.json({script})
Respond(q, script) ==
  /\ Awaiting(q)
  /\ freeUsageTracker' = IF requests[q].isPro THEN freeUsageTracker
                         ELSE markFreeGenerationUsed(requests[q].userId)
  /\ requests' = [requests EXCEPT ![q] = [@ EXCEPT !.status = 200, !.script = script]]
  /\ LedgerUnchanged

\* the completion resolved: script = completion.choices[0].message.content
OpenAiResolves(q) == Respond(q, "generated")

\* the completion rejected: the inner catch substitutes the mock script
OpenAiRejects(q) == Respond(q, "mock")

\* ------------------------------------------------------- the specifications
\* a ledger the recorder has filled before: 50.00 pending for user 1 (purchase
\* of 125.00 by user 2) and 50.00 pending for user 3 (purchase by user 4)
SeedLedger ==
  <<[id |-> 1, referrer_id |-> 1, referred_user_id |-> 2,
     purchase_amount |-> FromPence(12500),
     commission_amount |-> CommissionOf(FromPence(12500)), status |-> "pending",
     stripe_payment_intent_id |-> "pi_0", paid_at |-> "NULL"],
    [id |-> 2, referrer_id |-> 3, referred_user_id |-> 4,
     purchase_amount |-> FromPence(12500),
     commission_amount |-> CommissionOf(FromPence(12500)), status |-> "pending",
     stripe_payment_intent_id |-> "pi_0", paid_at |-> "NULL"]>>

\* the database after initializeDatabase and signups, with an empty ledger or
\* with SeedLedger
Init ==
  /\ users = SeedUsers
  /\ commissions \in {<<>>, SeedLedger}
  /\ payouts = <<>>
  /\ transfers = <<>>
  /\ batch = [b \in Batches |-> IdleBatch]
  /\ runs = 0
  /\ faults = 0
  /\ today = Date(2024, 4, 30)
  /\ cronFired = FALSE
  /\ delivered = 0
  /\ last = [event |-> NoEvent, commission |-> NoId, response |-> 0]
  /\ hostLag = 0
  /\ fires = <<>>
  /\ freeUsageTracker = {}
  /\ requests = <<>>

\* the purchases delivered while payouts run: one-time purchases of 9.99 by
\* user 2 and of 125.00 by users 3 and 4, and an invoice of 125.00 of user 2
\* (as Stripe customer); the referrers 1 and 3 have a Stripe account, 2 has none
LedgerCheckouts ==
  {Event("checkout.session.completed", 2, NoId, "2reports", 0, 999, "pi_1", NoDate),
   Event("checkout.session.completed", 3, NoId, "2reports", 0, 12500, "pi_1", NoDate),
   Event("checkout.session.completed", 4, NoId, "2reports", 0, 12500, "pi_1", NoDate)}
LedgerInvoices ==
  {Event("invoice.payment_succeeded", NoId, 2, "NULL", 0, 12500, "pi_2", Date(2024, 2, 5))}

BatchStep(b) ==
  \/ monthlyPayoutJob(b)
  \/ triggerManualPayout(b)
  \/ Recheck(b)
  \/ TransferSucceeds(b)
  \/ TransferFails(b)
  \/ CreatePayoutRecord(b)
  \/ MarkPayoutPaid(b)
  \/ MarkCommissionsPaid(b)
  \/ CatchRead(b)
  \/ CatchCreatePayout(b)
  \/ CatchMarkFailed(b)

\* one invocation of processMonthlyPayouts in flight at a time
Next ==
  \/ \E session \in LedgerCheckouts : CheckoutSessionCompleted(session)
  \/ \E invoice \in LedgerInvoices : InvoicePaymentSucceeded(invoice)
  \/ BatchStep(1)

Spec == Init /\ [][Next]_vars

\* the same, where database calls of processUserPayout may reject
NextDbFault ==
  \/ Next
  \/ DbCallFails(1)

SpecDbFault == Init /\ [][NextDbFault]_vars

\* invocations that overlap: the cron job and triggerManualPayout take no lock
NextOverlap ==
  \/ \E invoice \in LedgerInvoices : InvoicePaymentSucceeded(invoice)
  \/ \E b \in Batches : BatchStep(b)

SpecOverlap == Init /\ [][NextOverlap]_vars

\* the scheduler over the calendar: the days pass from the 27th of a month
\* with 31 days followed by one of 28, of a February with 29 days, and of a
\* month with 30 days followed by December and the new year; the host's clock
\* is in the schedule's zone or west of it
SchedulerStarts == {Date(2023, 1, 27), Date(2024, 2, 27), Date(2024, 11, 27)}

InitScheduler ==
  /\ users = SeedUsers
  /\ commissions \in {<<>>, SeedLedger}
  /\ payouts = <<>>
  /\ transfers = <<>>
  /\ batch = [b \in Batches |-> IdleBatch]
  /\ runs = 0
  /\ faults = 0
  /\ today \in SchedulerStarts
  /\ cronFired = FALSE
  /\ delivered = 0
  /\ last = [event |-> NoEvent, commission |-> NoId, response |-> 0]
  /\ hostLag \in {0, 1}
  /\ fires = <<>>
  /\ freeUsageTracker = {}
  /\ requests = <<>>

NextScheduler ==
  \/ NextDay
  \/ BatchStep(1)

SpecScheduler == InitScheduler /\ [][NextScheduler]_vars

\* the scheduler and the operator: invocations that overlap, on a day in the
\* middle of the month, on a day with a fire that is not the last, and on the
\* last day
ManualDays == {Date(2024, 4, 15), Date(2024, 4, 29), Date(2024, 4, 30)}

InitManual ==
  /\ users = SeedUsers
  /\ commissions \in {<<>>, SeedLedger}
  /\ payouts = <<>>
  /\ transfers = <<>>
  /\ batch = [b \in Batches |-> IdleBatch]
  /\ runs = 0
  /\ faults = 0
  /\ today \in ManualDays
  /\ cronFired = FALSE
  /\ delivered = 0
  /\ last = [event |-> NoEvent, commission |-> NoId, response |-> 0]
  /\ hostLag = 0
  /\ fires = <<>>
  /\ freeUsageTracker = {}
  /\ requests = <<>>

NextManual == \E b \in Batches : BatchStep(b)

SpecManual == InitManual /\ [][NextManual]_vars

\* the generator backend: requests from two addresses, free and Pro, complete
\* and not
GeneratorUsers == {"ip1", "ip2"}

NextGenerator ==
  \/ \E userId \in GeneratorUsers, isPro \in BOOLEAN, complete \in BOOLEAN :
       GenerateArrives(userId, isPro, complete)
  \/ \E q \in 1..MaxRequests : OpenAiResolves(q)
  \/ \E q \in 1..MaxRequests : OpenAiRejects(q)

SpecGenerator == Init /\ [][NextGenerator]_vars

\* the commission recorder alone, over the events a webhook can deliver: users
\* with and without referrer, user 5 who does not exist, the user named by
\* metadata or as customer or not at all, each plan, and invoice dates on
\* both sides of the third calendar month
RecorderCheckouts ==
  {Event("checkout.session.completed", u, c, plan, credits, a, "pi_1", NoDate) :
     u \in {NoId, 1, 2, 5}, c \in {NoId, 4}, plan \in {"pro", "2reports"},
     credits \in {0, 2}, a \in {999, 20000}}
RecorderInvoices ==
  {Event("invoice.payment_succeeded", u, c, "NULL", 0, 1999, "pi_2", d) :
     u \in {NoId, 3}, c \in {NoId, 1, 2, 4, 5},
     d \in {Date(2024, 2, 5), Date(2024, 3, 1), Date(2024, 4, 10)}}

NextRecorder ==
  \/ \E session \in RecorderCheckouts : CheckoutSessionCompleted(session)
  \/ \E invoice \in RecorderInvoices : InvoicePaymentSucceeded(invoice)

SpecRecorder == Init /\ [][NextRecorder]_vars

\* the purchases delivered meanwhile: 9.99 by user 2, whose commission alone
\* is below the threshold, and 125.00 by user 4
LiveCheckouts ==
  {Event("checkout.session.completed", 2, NoId, "2reports", 0, 999, "pi_1", NoDate),
   Event("checkout.session.completed", 4, NoId, "2reports", 0, 12500, "pi_1", NoDate)}

\* one invocation at a time, next to one-time purchases only
NextPayout ==
  \/ \E session \in LiveCheckouts : CheckoutSessionCompleted(session)
  \/ BatchStep(1)

SpecPayout == Init /\ [][NextPayout]_vars

\* Payouts that make progress.  Every await of a batch settles (Stripe and
\* the database answer), a batch is triggered again whenever none is running,
\* and the transfers stop failing: within the runs the model allows, the
\* transfer of the last run succeeds.
TransferFailsBeforeLast(b) == runs < MaxRuns /\ TransferFails(b)

PayoutProgress ==
  \/ Recheck(1)
  \/ TransferSucceeds(1)
  \/ TransferFailsBeforeLast(1)
  \/ CreatePayoutRecord(1)
  \/ MarkPayoutPaid(1)
  \/ MarkCommissionsPaid(1)
  \/ CatchRead(1)
  \/ CatchCreatePayout(1)
  \/ CatchMarkFailed(1)

NextLive ==
  \/ \E session \in LiveCheckouts : CheckoutSessionCompleted(session)
  \/ triggerManualPayout(1)
  \/ PayoutProgress

SpecLive ==
  /\ Init
  /\ [][NextLive]_vars
  /\ WF_vars(triggerManualPayout(1))
  /\ WF_vars(PayoutProgress)

\* the report credits: checkouts that carry credits or none, for users that
\* exist or not, interleaved with uses of a credit
CreditUsers == {1, 2, 5}

NextCredits ==
  \/ \E session \in RecorderCheckouts : CheckoutSessionCompleted(session)
  \/ \E userId \in CreditUsers : UseReportCredit(userId)

SpecCredits == Init /\ [][NextCredits]_vars

\* checkouts made through POST /create-checkout-session, by users with and
\* without referrer or by nobody (no userId in the body), and completed
CheckoutPlans == {"pro", "2reports", "15reports"}

CreatedSessions ==
  {createCheckoutSession(plan, userId) :
     plan \in CheckoutPlans, userId \in {NoId, 1, 2, 3, 4}}

NextCheckout ==
  \E session \in CreatedSessions : CheckoutSessionCompleted(session)

SpecCheckout == Init /\ [][NextCheckout]_vars

\* every entry point that inserts a commission: the two webhook events and
\* POST /affiliate/process-commission, whose body names users that exist
\* (1..4), one that does not (5) or none
NextCommissionApi ==
  \/ NextRecorder
  \/ \E referrerId \in {NoId, 1, 3, 5}, referredUserId \in {NoId, 2, 4, 5},
        purchaseAmount \in {0, 125} :
       ProcessCommission(referrerId, referredUserId, purchaseAmount, "pi_3")

SpecCommissionApi == Init /\ [][NextCommissionApi]_vars

\* the signup endpoints on the database as initializeDatabase leaves it (the
\* seeded affiliate alone); the request bodies name a taken e-mail and three
\* free ones, and referrers that exist, that do not, and none
SignupEmails ==
  {"testaffiliate@example.com", "a@example.com", "b@example.com", "c@example.com"}

SignupReferrers == 0..(MaxSignups + 2)

InitSignup ==
  /\ users = [u \in {1} |-> SeedUsers[u]]
  /\ commissions = <<>>
  /\ payouts = <<>>
  /\ transfers = <<>>
  /\ batch = [b \in Batches |-> IdleBatch]
  /\ runs = 0
  /\ faults = 0
  /\ today = Date(2024, 4, 30)
  /\ cronFired = FALSE
  /\ delivered = 0
  /\ last = [event |-> NoEvent, commission |-> NoId, response |-> 0]
  /\ hostLag = 0
  /\ fires = <<>>
  /\ freeUsageTracker = {}
  /\ requests = <<>>

NextSignup ==
  \/ \E email \in SignupEmails, referrerId \in SignupReferrers :
       Signup(email, referrerId)
  \/ \E email \in SignupEmails, referrerId \in SignupReferrers :
       ProcessReferral(email, referrerId)

SpecSignup == InitSignup /\ [][NextSignup]_vars

\* the recorder where the insert of the commission may reject
NextRecorderFault ==
  \/ NextRecorder
  \/ \E session \in RecorderCheckouts : CheckoutCommissionFails(session)
  \/ \E invoice \in RecorderInvoices : InvoiceCommissionFails(invoice)

SpecRecorderFault == Init /\ [][NextRecorderFault]_vars

\* ------------------------------------------------------------- the claims
\* a step in which a processUserPayout call of invocation b finishes, and the
\* record of that call
CallEnds(b) == Len(batch'[b].log) = Len(batch[b].log) + 1
Ended(b) == batch'[b].log[Len(batch'[b].log)]
\* a step in which invocation b of processMonthlyPayouts starts (in the first
\* free slot)
BatchStarts(b) ==
  /\ runs' = runs + 1
  /\ batch[b].pc = "idle"
  /\ \A c \in Batches : c < b => batch[c].pc # "idle"
\* the finished calls on record
Calls == UNION {{batch[b].log[k] : k \in DOMAIN batch[b].log} : b \in Batches}
\* the users of a sequence of scan rows
UsersIn(seq) == {seq[i] : i \in DOMAIN seq}
\* the user a webhook event names exists and has a referrer
Referred(event) ==
  /\ EventUserId(event) \in DOMAIN users
  /\ users[EventUserId(event)].referrer_id # NoId

\* C1: when a processUserPayout call whose transfer succeeded finishes, every
\* commission of that user that was pending is paid with paid_at set, and the
\* call has created exactly one payout row, which has status paid, paid_at set
\* and the id of the transfer Stripe returned.
C1_SuccessSettles ==
  [][\A b \in Batches :
       (CallEnds(b) /\ Ended(b).xfer = "ok") =>
         /\ \A c \in DOMAIN commissions :
              (commissions[c].referrer_id = Ended(b).user
                 /\ commissions[c].status = "pending")
              => (commissions'[c].status = "paid" /\ commissions'[c].paid_at # "NULL")
         /\ Cardinality(Ended(b).created) = 1
         /\ \A p \in Ended(b).created :
              /\ payouts'[p].user_id = Ended(b).user
              /\ payouts'[p].status = "paid"
              /\ payouts'[p].paid_at # "NULL"
              /\ payouts'[p].stripe_payout_id = Ended(b).payout
              /\ transfers[Ended(b).payout].ok]_vars

C1_Witness ==
  \E e \in Calls :
    /\ e.xfer = "ok" /\ e.outcome = "returned"
    /\ e.settled # {}
    /\ \E p \in e.created : payouts[p].status = "paid"

\* C2: when a processUserPayout call whose transfer failed finishes, it has
\* created a payout row with status failed for that user; no step of such a call
\* changes a commission; and a batch that starts while the user's pending
\* commissions are those the failed call summed finds the user eligible with
\* the same pending sum.
C2_FailureKeepsPending ==
  [][\A b \in Batches :
       /\ (CallEnds(b) /\ Ended(b).xfer = "fail") =>
            \E p \in Ended(b).created :
              /\ payouts'[p].user_id = Ended(b).user
              /\ payouts'[p].status = "failed"
       /\ (batch'[b] # batch[b] /\ (batch[b].xfer = "fail" \/ batch'[b].xfer = "fail"))
            => commissions' = commissions
       /\ BatchStarts(b) =>
            \A e \in Calls :
              (e.xfer = "fail" /\ PendingIds(e.user) = e.readSet) =>
                /\ e.user \in UsersIn(batch'[b].eligibleUsers)
                /\ getTotalPendingCommissions(e.user) = e.totalPending]_vars

C2_Witness ==
  \E b \in Batches :
    /\ batch[b].pc = "recheck" /\ batch[b].log = <<>> /\ runs = 2
    /\ \A c \in Batches \ {b} : batch[c].pc = "idle"
    /\ \E p \in DOMAIN payouts :
         /\ payouts[p].status = "failed"
         /\ payouts[p].user_id = UserOf(batch[b])
         /\ payouts[p].amount = getTotalPendingCommissions(UserOf(batch[b]))
    /\ \A c \in DOMAIN commissions : commissions[c].status = "pending"

\* C3: no commission is covered by two successful transfers: the sets of
\* commissions summed into any two successful transfers are disjoint.
C3_NoDoublePay ==
  \A i, j \in DOMAIN transfers :
    (i < j /\ transfers[i].ok /\ transfers[j].ok)
      => transfers[i].covers \cap transfers[j].covers = {}

\* C4: the amount of the paid payout row of a finished call equals the sum of
\* the commissions that call moved from pending to paid.
C4_PayoutEqualsSettled ==
  \A e \in Calls :
    e.outcome = "returned" =>
      \A p \in e.created :
        payouts[p].status = "paid"
          => payouts[p].amount = SumAmounts(commissions, e.settled)

\* C5: after a processUserPayout call has finished, no payout row it wrote is
\* paid while a commission it summed is still pending.
C5_PayoutAndCommissionsOneUnit ==
  \A e \in Calls :
    \A p \in e.created :
      payouts[p].status = "paid"
        => \A c \in e.readSet : commissions[c].status # "pending"

\* C6: no exception leaves processMonthlyPayouts, and a finished batch has
\* processed every user of its eligibility snapshot, in order, each to its
\* outcome: a failed payout row where the transfer threw, a paid one where it
\* succeeded, nothing where the user was skipped.
C6_FailureDoesNotAbortBatch ==
  \A b \in Batches :
    LET r == batch[b]
    IN /\ ~r.escaped
       /\ r.pc # "idle" => Len(r.log) = r.idx - 1
       /\ (r.pc = "idle" /\ r.started) =>
            /\ Len(r.log) = Len(r.eligibleUsers)
            /\ \A k \in DOMAIN r.log :
                 /\ r.log[k].user = r.eligibleUsers[k]
                 /\ r.log[k].xfer = "fail" =>
                      /\ r.log[k].outcome = "thrown"
                      /\ \E p \in r.log[k].created :
                           /\ payouts[p].status = "failed"
                           /\ payouts[p].user_id = r.log[k].user
                 /\ r.log[k].xfer = "ok" =>
                      /\ r.log[k].outcome = "returned"
                      /\ \E p \in r.log[k].created : payouts[p].status = "paid"
                 /\ r.log[k].xfer = "none" =>
                      /\ r.log[k].outcome = "skipped"
                      /\ r.log[k].created = {}

C6_Witness ==
  \E b \in Batches :
    /\ batch[b].pc = "idle" /\ Len(batch[b].eligibleUsers) = 2
    /\ Len(batch[b].log) = 2
    /\ batch[b].log[1].xfer = "fail"
    /\ batch[b].log[2].xfer = "ok" /\ batch[b].log[2].outcome = "returned"

\* C7: the checkout.session.completed event of a user with a referrer records
\* one pending commission for that referrer and that user, whose
\* commission_amount is 40% of the purchase amount rounded to whole pence.
C7_CheckoutCommissionRounded ==
  (last.event.type = "checkout.session.completed" /\ Referred(last.event)) =>
    /\ last.commission # NoId
    /\ LET row == commissions[last.commission]
       IN /\ row.referrer_id = users[EventUserId(last.event)].referrer_id
          /\ row.referred_user_id = EventUserId(last.event)
          /\ row.status = "pending"
          /\ row.purchase_amount = FromPence(last.event.amount)
          /\ row.commission_amount
               = FromPence(ToPence((FromPence(last.event.amount) * RateNum) \div RateDen))

\* C8: a webhook event (of either kind) whose user does not exist or has no
\* referrer leaves the commissions table unchanged.
C8_NoReferrerNoCommission ==
  [][(delivered' = delivered + 1 /\ ~Referred(last'.event))
       => commissions' = commissions]_vars

C8_Witness ==
  /\ last.event.type = "invoice.payment_succeeded"
  /\ EventUserId(last.event) # NoId
  /\ ~Referred(last.event)
  /\ last.commission = NoId
  /\ delivered = 1

\* C9: the invoice.payment_succeeded event of a user with a referrer records a
\* commission iff (invoice year - creation year) * 12 + (invoice month -
\* creation month) < 3.
C9_SubscriptionWindow ==
  (last.event.type = "invoice.payment_succeeded" /\ Referred(last.event)) =>
    LET start == users[EventUserId(last.event)].created_at
        invoiceDate == last.event.created
    IN (last.commission # NoId)
         <=> ((invoiceDate.year - start.year) * 12
                + (invoiceDate.month - start.month) < 3)

\* account created Jan 15, invoice Apr 10: no commission
C9_Witness ==
  /\ last.event.type = "invoice.payment_succeeded"
  /\ Referred(last.event)
  /\ users[EventUserId(last.event)].created_at = Date(2024, 1, 15)
  /\ last.event.created = Date(2024, 4, 10)
  /\ last.commission = NoId

\* C10: the eligibility scan of a starting batch returns, each once, exactly
\* the users with a payment-account identifier whose pending commission sum is
\* at least 50.
C10_EligibleUsersExact ==
  [][\A b \in Batches :
       BatchStarts(b) =>
         /\ UsersIn(batch'[b].eligibleUsers)
              = {u \in DOMAIN users :
                   /\ users[u].stripe_account_id # "NULL"
                   /\ getTotalPendingCommissions(u) >= 50 * PencePerPound * RateDen}
         /\ Len(batch'[b].eligibleUsers) = Cardinality(UsersIn(batch'[b].eligibleUsers))]_vars

\* a scan that returns user 1 at exactly 50.00 and leaves out user 2, who has
\* 50.00 pending and no account
C10_Witness ==
  \E b \in Batches :
    /\ batch[b].pc = "recheck" /\ batch[b].log = <<>>
    /\ batch[b].eligibleUsers = <<1>>
    /\ getTotalPendingCommissions(1) = 50 * PencePerPound * RateDen
    /\ users[2].stripe_account_id = "NULL"
    /\ getTotalPendingCommissions(2) >= 50 * PencePerPound * RateDen

\* the pending commission_amount of userId over rows 1..n, row by row
RECURSIVE PendingUpTo(_, _)
PendingUpTo(userId, n) ==
  IF n = 0 THEN 0
  ELSE PendingUpTo(userId, n - 1)
         + (IF commissions[n].referrer_id = userId /\ commissions[n].status = "pending"
            THEN commissions[n].commission_amount ELSE 0)

\* C11: for every user id (one that is no user included),
\* getTotalPendingCommissions returns the sum of commission_amount over the
\* rows with that referrer_id and status pending, paid rows and rows of other
\* referrers not counted, and 0 when there is no such row.
C11_PendingSumExact ==
  \A userId \in DOMAIN users \cup {NoId, 5} :
    LET total == getTotalPendingCommissions(userId)
    IN /\ total = PendingUpTo(userId, Len(commissions))
       /\ (\A c \in DOMAIN commissions :
             commissions[c].referrer_id = userId => commissions[c].status # "pending")
            => total = 0

\* user 1 has a paid and a pending commission, user 3 a pending one, user 2
\* none: the sum of user 1 is the pending row alone
C11_Witness ==
  /\ \E c, d \in DOMAIN commissions :
       /\ commissions[c].referrer_id = 1 /\ commissions[c].status = "paid"
       /\ commissions[d].referrer_id = 1 /\ commissions[d].status = "pending"
       /\ getTotalPendingCommissions(1) = commissions[d].commission_amount
  /\ \E c \in DOMAIN commissions :
       commissions[c].referrer_id = 3 /\ commissions[c].status = "pending"
  /\ getTotalPendingCommissions(2) = 0

\* the last calendar day of its month
IsLastDay(date) == date.day = DaysInMonth(date.year, date.month)
\* the fires of the cron job in the month of `date` that invoked the batch
InvokedIn(date) ==
  {i \in DOMAIN fires :
     /\ fires[i].invoked
     /\ fires[i].date.year = date.year /\ fires[i].date.month = date.month}
\* a step that is a fire of the cron job
CronFires == Len(fires') = Len(fires) + 1

\* C12: a fire of the cron job (02:00 on days 28 to 31) starts a batch iff its
\* day is the last calendar day of the month and otherwise changes nothing;
\* when the last day of a month ends, the cron job has started exactly one
\* batch in that month.
C12_ScheduledOnceOnLastDay ==
  [][/\ CronFires =>
          /\ today.day \in 28..31
          /\ fires'[Len(fires')].invoked <=> IsLastDay(today)
          /\ fires'[Len(fires')].invoked <=> \E b \in Batches : BatchStarts(b)
          /\ ~fires'[Len(fires')].invoked =>
               UNCHANGED <<users, commissions, payouts, transfers, batch,
                           runs, freeUsageTracker, requests>>
     /\ (today' # today /\ IsLastDay(today)) =>
          /\ Cardinality(InvokedIn(today)) = 1
          /\ \A i \in InvokedIn(today) : fires[i].date = today]_vars

\* the same on a host whose local date is the schedule's date
C12_HostInScheduleZone ==
  [][hostLag = 0 =>
       /\ CronFires =>
            /\ fires'[Len(fires')].invoked <=> IsLastDay(today)
            /\ fires'[Len(fires')].invoked <=> \E b \in Batches : BatchStarts(b)
       /\ (today' # today /\ IsLastDay(today)) =>
            /\ Cardinality(InvokedIn(today)) = 1
            /\ \A i \in InvokedIn(today) : fires[i].date = today]_vars

\* slot b is the one the next invocation takes
FreeSlot(b) ==
  /\ batch[b].pc = "idle"
  /\ \A c \in Batches : c < b => batch[c].pc # "idle"

\* C13: triggerManualPayout can start a batch on any day and while another
\* invocation is in flight (while a slot and a run of the bounds are left), and
\* when it does the new invocation has scanned the whole ledger: its snapshot
\* is exactly the users eligible now, processing starts at the first of them,
\* and the invocation in flight is left as it is.
C13_ManualTriggerUnguarded ==
  /\ [](\A b \in Batches :
          (FreeSlot(b) /\ runs < MaxRuns) => ENABLED triggerManualPayout(b))
  /\ [][\A b \in Batches :
          (BatchStarts(b) /\ ~CronFires) =>
            /\ UsersIn(batch'[b].eligibleUsers)
                 = {u \in DOMAIN users :
                      /\ users[u].stripe_account_id # "NULL"
                      /\ PendingUpTo(u, Len(commissions)) >= 50 * PencePerPound * RateDen}
            /\ batch'[b].started
            /\ batch'[b].eligibleUsers # <<>> =>
                 (batch'[b].pc = "recheck" /\ batch'[b].idx = 1)
            /\ \A c \in Batches \ {b} : batch'[c] = batch[c]
            /\ UNCHANGED <<commissions, payouts, transfers, today,
                           freeUsageTracker, requests>>]_vars

\* the cron job's batch and a manually triggered one, both in flight over the
\* same snapshot and both about to transfer to the same user
C13_Witness ==
  /\ Len(fires) = 1 /\ fires[1].invoked
  /\ runs = 2
  /\ batch[1].pc = "transfer" /\ batch[2].pc = "transfer"
  /\ batch[1].eligibleUsers = batch[2].eligibleUsers
  /\ Len(batch[1].eligibleUsers) = 2
  /\ UserOf(batch[1]) = UserOf(batch[2])

\* the answered non-Pro requests of userId that had every required field
FreeAnswered(userId) ==
  {q \in DOMAIN requests :
     /\ requests[q].userId = userId /\ ~requests[q].isPro
     /\ requests[q].status \notin {0, 400}}

\* C14: of the non-Pro POST /generate requests of one user id (those with the
\* required fields), at most one is answered with a script and every other
\* answered one got 403.
C14_OneFreeGeneration ==
  \A userId \in GeneratorUsers :
    LET scripted == {q \in FreeAnswered(userId) : requests[q].status = 200}
    IN /\ Cardinality(scripted) <= 1
       /\ \A q \in FreeAnswered(userId) \ scripted : requests[q].status = 403

\* C15: a webhook event that has recorded a commission records none when it is
\* delivered again (the same event object, the same payment reference), and no
\* two commission rows stand for one payment of one user.
C15_OneCommissionPerPurchase ==
  [][/\ (delivered' = delivered + 1 /\ last'.event = last.event
          /\ last.commission # NoId)
        => commissions' = commissions
     /\ \A c, d \in DOMAIN commissions' :
          (/\ commissions'[c].stripe_payment_intent_id = commissions'[d].stripe_payment_intent_id
           /\ commissions'[c].stripe_payment_intent_id \notin {"pi_0", "NULL"}
           /\ commissions'[c].referred_user_id = commissions'[d].referred_user_id
           /\ commissions'[c].purchase_amount = commissions'[d].purchase_amount)
          => c = d]_vars

\* C16: every payout row a finished processUserPayout call created is paid
\* iff the call's transfer succeeded and failed iff the transfer call failed
\* (so none is pending, and none is failed after a transfer that succeeded).
C16_PayoutStatusMatchesTransfer ==
  \A e \in Calls :
    \A p \in e.created :
      /\ payouts[p].status = "paid" <=> e.xfer = "ok"
      /\ payouts[p].status = "failed" <=> e.xfer = "fail"

\* C17: when the re-read of processUserPayout finds the user's pending sum
\* below 50, the call returns in that step: no transfer is called, no payout
\* row is created, no commission changes, nothing is thrown, and the batch goes
\* on with the next user of its snapshot.
C17_BelowThresholdSkipped ==
  [][\A b \in Batches :
       (/\ batch[b].pc = "recheck" /\ batch'[b] # batch[b]
        /\ PendingUpTo(UserOf(batch[b]), Len(commissions)) < 50 * PencePerPound * RateDen)
       => /\ CallEnds(b)
          /\ Ended(b).user = UserOf(batch[b])
          /\ Ended(b).outcome = "skipped"
          /\ Ended(b).xfer = "none" /\ Ended(b).created = {}
          /\ UNCHANGED <<commissions, payouts, transfers>>
          /\ ~batch'[b].escaped
          /\ IF batch[b].idx < Len(batch[b].eligibleUsers)
             THEN batch'[b].pc = "recheck" /\ batch'[b].idx = batch[b].idx + 1
             ELSE batch'[b].pc = "idle"]_vars

\* an invocation has skipped a user of its snapshot whom another invocation
\* paid after the scan
C17_Witness ==
  \E b \in Batches : \E k \in DOMAIN batch[b].log :
    /\ batch[b].log[k].outcome = "skipped"
    /\ batch[b].log[k].user = batch[b].eligibleUsers[k]
    /\ batch[b].log[k].totalPending < 50 * PencePerPound * RateDen
    /\ \E i \in DOMAIN transfers :
         transfers[i].user_id = batch[b].log[k].user /\ transfers[i].by # b

\* C18: every paid commission has a paid payout row of its referrer; a
\* commission goes from pending to paid only in the step that ends a
\* processUserPayout call for its referrer whose transfer succeeded, and in that
\* step every pending commission of that referrer goes to paid.
C18_PaidOnlyBySuccessfulPayout ==
  [][/\ \A c \in DOMAIN commissions' :
          commissions'[c].status = "paid" =>
            \E p \in DOMAIN payouts' :
              /\ payouts'[p].user_id = commissions'[c].referrer_id
              /\ payouts'[p].status = "paid"
     /\ \A c \in DOMAIN commissions :
          (commissions[c].status = "pending" /\ commissions'[c].status = "paid") =>
            /\ \E b \in Batches :
                 /\ CallEnds(b)
                 /\ Ended(b).user = commissions[c].referrer_id
                 /\ Ended(b).xfer = "ok"
                 /\ transfers[Ended(b).payout].ok
                 /\ transfers[Ended(b).payout].user_id = commissions[c].referrer_id
            /\ \A d \in DOMAIN commissions :
                 (commissions[d].referrer_id = commissions[c].referrer_id
                    /\ commissions[d].status = "pending")
                 => commissions'[d].status = "paid"]_vars

\* two commissions of one referrer, the second recorded after the call had read
\* the sum, paid by the one call that has a paid payout row
C18_Witness ==
  \E c, d \in DOMAIN commissions :
    /\ c < d
    /\ commissions[c].referrer_id = commissions[d].referrer_id
    /\ commissions[c].status = "paid" /\ commissions[d].status = "paid"
    /\ \E e \in Calls :
         /\ e.user = commissions[c].referrer_id
         /\ c \in e.readSet /\ d \notin e.readSet /\ {c, d} \subseteq e.settled
    /\ Cardinality({p \in DOMAIN payouts :
                      /\ payouts[p].user_id = commissions[c].referrer_id
                      /\ payouts[p].status = "paid"}) = 1

\* C19: a commission row has status paid iff its paid_at is set.
C19_PaidIffPaidAt ==
  \A c \in DOMAIN commissions :
    commissions[c].status = "paid" <=> commissions[c].paid_at # "NULL"

\* a row a webhook has inserted (pending, paid_at unset) next to a row a payout
\* has settled (paid, paid_at set)
C19_Witness ==
  /\ last.commission # NoId
  /\ commissions[last.commission].status = "pending"
  /\ commissions[last.commission].paid_at = "NULL"
  /\ \E c \in DOMAIN commissions :
       commissions[c].status = "paid" /\ commissions[c].paid_at = "ts"

\* C20: the payout row a call wrote after its transfer failed has the amount of
\* the attempt: the sum the call verified and passed (in pence) to the transfer.
C20_FailedRowHasAttemptedAmount ==
  \A e \in Calls :
    e.xfer = "fail" =>
      \A p \in e.created :
        /\ payouts[p].amount = e.totalPending
        /\ \E i \in DOMAIN transfers :
             /\ ~transfers[i].ok /\ transfers[i].user_id = e.user
             /\ transfers[i].amount = ToPence(payouts[p].amount)

\* a step in which stripe.transfers.create is called, and the call
TransferCalled == Len(transfers') = Len(transfers) + 1
Called == transfers'[Len(transfers')]

\* C21: every stripe.transfers.create call is made by a processUserPayout call
\* that has re-read the user's pending sum; its amount is that sum in pence,
\* rounded to the nearest penny, its destination the user's stripe_account_id,
\* and its metadata the user's id and the affiliate-payout marker.
C21_TransferArguments ==
  [][TransferCalled =>
       LET r == batch[Called.by]
       IN /\ r.pc = "transfer"
          /\ \A c \in r.readSet : commissions[c].referrer_id = UserOf(r)
          /\ r.totalPending = SumAmounts(commissions, r.readSet)
          /\ r.totalPending >= 50 * PencePerPound * RateDen
          /\ 2 * Called.amount * RateDen - RateDen <= 2 * r.totalPending
          /\ 2 * r.totalPending < 2 * Called.amount * RateDen + RateDen
          /\ Called.currency = "gbp"
          /\ Called.destination = users[UserOf(r)].stripe_account_id
          /\ Called.destination # "NULL"
          /\ Called.user_id = UserOf(r)
          /\ Called.affiliate_payout = "true"]_vars

\* a transfer of 5400 pence for a verified sum of 53.996
C21_Witness ==
  \E i \in DOMAIN transfers :
    /\ transfers[i].ok
    /\ SumAmounts(commissions, transfers[i].covers) = 53996
    /\ transfers[i].amount = 5400
    /\ transfers[i].destination = users[transfers[i].user_id].stripe_account_id

\* C22: a run of processMonthlyPayouts calls stripe.transfers.create at most
\* once per user: when a call is made for a user, the run has made none for
\* that user before, neither in the processUserPayout call in progress nor in
\* one that has finished, and the snapshot holds the user once.
C22_OneTransferPerUserPerRun ==
  [][TransferCalled =>
       LET r == batch[Called.by]
       IN /\ r.xfer = "none"
          /\ \A k \in DOMAIN r.log :
               r.log[k].user = Called.user_id => r.log[k].xfer = "none"
          /\ Cardinality({k \in DOMAIN r.eligibleUsers :
                            r.eligibleUsers[k] = Called.user_id}) = 1]_vars

\* a finished run of two users whose first transfer failed: two calls in all
C22_Witness ==
  /\ runs = 1 /\ batch[1].pc = "idle" /\ Len(batch[1].log) = 2
  /\ batch[1].log[1].xfer = "fail" /\ batch[1].log[2].xfer # "none"
  /\ Len(transfers) = 2
  /\ transfers[1].user_id # transfers[2].user_id

\* the webhook event is one the recorder creates a commission for
Records(event) ==
  /\ Referred(event)
  /\ \/ event.type = "checkout.session.completed"
     \/ (event.created.year - users[EventUserId(event)].created_at.year) * 12
          + (event.created.month - users[EventUserId(event)].created_at.month) < 3

PersistFails == delivered' = delivered + 1 /\ faults' = faults + 1

\* C24: when db.createCommission rejects while a webhook event is handled, the
\* event is answered 200 (received), no commission row is added, and the plan
\* or credit update the handler made for the event stays; a commission row is
\* added only by the delivery of an event, so the event is recorded on no
\* later step unless Stripe delivers it again.
C24_PersistFailureAcknowledged ==
  [][/\ PersistFails =>
          /\ last'.response = 200
          /\ last'.commission = NoId
          /\ commissions' = commissions
          /\ LET e == last'.event
             IN (e.userId \in DOMAIN users) =>
                  /\ (e.type = "invoice.payment_succeeded" \/ e.plan = "pro") =>
                       /\ users'[e.userId].plan = "pro"
                       /\ users'[e.userId].subscription_expires
                            = SetMonthPlusOne(today)
                  /\ (e.type = "checkout.session.completed" /\ e.plan # "pro") =>
                       users'[e.userId].report_credits
                         = users[e.userId].report_credits + e.credits
     /\ Len(commissions') > Len(commissions) =>
          /\ delivered' = delivered + 1
          /\ last'.commission = Len(commissions')
          /\ ~PersistFails]_vars

\* the checkout of a Pro plan by a referred user: upgraded, acknowledged, and
\* no commission recorded
C24_Witness ==
  /\ faults = 1
  /\ last.response = 200 /\ last.commission = NoId
  /\ last.event.type = "checkout.session.completed"
  /\ last.event.plan = "pro"
  /\ Referred(last.event)
  /\ last.event.userId \in DOMAIN users
  /\ users[last.event.userId].plan = "pro"
  /\ \A c \in DOMAIN commissions :
       commissions[c].stripe_payment_intent_id # last.event.payment_intent

\* C25: every user's referrer_id is absent or the id of an existing user, and
\* never the user's own id.
C25_ReferrerExistsNotSelf ==
  \A u \in DOMAIN users :
    \/ users[u].referrer_id = NoId
    \/ /\ users[u].referrer_id \in DOMAIN users
       /\ users[u].referrer_id # u

\* a chain of referrals among users who signed up, next to a user without one
C25_Witness ==
  /\ Cardinality(DOMAIN users) = 1 + MaxSignups
  /\ users[3].referrer_id = 2
  /\ users[2].referrer_id = 1
  /\ \E u \in DOMAIN users : u > 1 /\ users[u].referrer_id = NoId

\* the successful transfers to user u, and their total in pence
OkTransfers(u) ==
  {i \in DOMAIN transfers : transfers[i].ok /\ transfers[i].user_id = u}

RECURSIVE SumTransfers(_)
SumTransfers(ids) ==
  IF ids = {} THEN 0
  ELSE LET i == CHOOSE x \in ids : TRUE
       IN transfers[i].amount + SumTransfers(ids \ {i})

\* every commission ever recorded for user u, pending or paid
RecordedFor(u) == {c \in DOMAIN commissions : commissions[c].referrer_id = u}

\* C26: with one batch at a time, the successful transfers to a user never add
\* up to more than the commissions recorded for that user (up to the rounding
\* of each transfer to a whole penny).
C26_TransfersWithinRecorded ==
  \A u \in DOMAIN users :
    FromPence(SumTransfers(OkTransfers(u)))
      <= SumAmounts(commissions, RecordedFor(u))
           + RateDen * Cardinality(OkTransfers(u))

\* C27: every commission row names an existing user as referred_user_id, and
\* its referrer_id is that user's referrer_id.
C27_CommissionLinksReferral ==
  \A c \in DOMAIN commissions :
    /\ commissions[c].referred_user_id \in DOMAIN users
    /\ commissions[c].referrer_id
         = users[commissions[c].referred_user_id].referrer_id

\* the ids a commission row can have
CommissionIds == 1..(Len(SeedLedger) + MaxEvents)

\* commission c is pending, for a user with a Stripe account whose pending
\* commissions add up to the threshold
Due(c) ==
  /\ c \in DOMAIN commissions
  /\ commissions[c].status = "pending"
  /\ users[commissions[c].referrer_id].stripe_account_id # "NULL"
  /\ getTotalPendingCommissions(commissions[c].referrer_id) >= Pounds(PayoutThreshold)

\* C28: while a batch is still to be triggered, transfers end up succeeding
\* and the database writes succeed, every pending commission of a user with a
\* Stripe account and a pending sum of at least 50 is eventually paid.
C28_DueCommissionEventuallyPaid ==
  \A c \in CommissionIds :
    (Due(c) /\ runs < MaxRuns)
      ~> (c \in DOMAIN commissions /\ commissions[c].status = "paid")

\* a commission paid by the second batch, after the transfer of the first
\* batch for its user failed
C28_Witness ==
  \E i, j \in DOMAIN transfers :
    /\ i < j /\ ~transfers[i].ok /\ transfers[j].ok
    /\ transfers[i].user_id = transfers[j].user_id
    /\ transfers[i].by = 1 /\ runs = MaxRuns
    /\ \E c \in transfers[i].covers \cap transfers[j].covers :
         commissions[c].status = "paid"

\* C29: report_credits is never negative, and useReportCredit returns true
\* exactly when it took one credit off the balance of the user (and changes
\* nothing when it returns false).
C29_CreditsNeverNegative ==
  /\ \A u \in DOMAIN users : users[u].report_credits >= 0
  /\ \A userId \in CreditUsers :
       LET r == useReportCredit(userId)
       IN /\ r.result <=>
               /\ userId \in DOMAIN users
               /\ r.table[userId].report_credits
                    = users[userId].report_credits - 1
          /\ ~r.result => r.table = users
          /\ \A u \in DOMAIN users \ {userId} : r.table[u] = users[u]

\* two purchases of two credits, three of them used: one credit is left, and
\* another user has used both of theirs
C29_Witness ==
  /\ delivered = MaxEvents
  /\ \E u \in DOMAIN users : users[u].report_credits = 1
  /\ \E u \in DOMAIN users :
       /\ users[u].report_credits = 0
       /\ last.event.userId = u /\ last.event.credits > 0 /\ last.event.plan # "pro"

\* C30: the completion of a session created by POST /create-checkout-session
\* for an existing user raises the user's report_credits when the plan is
\* 2reports or 15reports, and makes the user pro with an expiry one month ahead
\* when the plan is pro.
C30_CheckoutGrantsPurchase ==
  [][\A plan \in CheckoutPlans, userId \in DOMAIN users :
       (delivered' = delivered + 1
          /\ last'.event = createCheckoutSession(plan, userId)) =>
         /\ plan \in {"2reports", "15reports"} =>
              users'[userId].report_credits > users[userId].report_credits
         /\ plan = "pro" =>
              /\ users'[userId].plan = "pro"
              /\ users'[userId].subscription_expires = SetMonthPlusOne(today)]_vars

====
